---- MODULE Spec2Model ----
(***************************************************************************)
(* A model of the structured control-flow helpers (make_loop, make_while,  *)
(* make_cond) and of the custom-operator kernels of the BrainPy tutorials. *)
(*                                                                         *)
(* Arrays are sequences of integers.  Every tracked variable holds a       *)
(* vector; a slice of an input leaf along its leading axis is an integer.  *)
(* A container of arrays (a pytree) is a record                            *)
(*     [kind, keys, vals]                                                  *)
(* with kind one of "none", "leaf", "list", "tuple", "dict"; keys are      *)
(* strings ("0", "1" for positions), in insertion order for a dict.        *)
(***************************************************************************)
EXTENDS Integers, Sequences, FiniteSets, TLC

\* ------------------------------------------------------------------ bounds
MaxLen == 2
MaxVal == 1
NBatch == 2
MaxCondCalls == 4
MaxSize == 4
MaxGrid == 2
MaxBlock == 2
MaxCalls == 2

\* ------------------------------------------------------- program constants
ALen == 10
NArange == 10
WhileLimit == 10
CondLen == 2
Uninit == -1

Vals == 0..MaxVal
WeightVals == {-1, 1}

Range(s) == {s[i] : i \in DOMAIN s}

\* ---------------------------------------------------------------- pytrees
NoneTree == [kind |-> "none", keys |-> <<>>, vals |-> <<>>]
Leaf(v) == [kind |-> "leaf", keys |-> <<>>, vals |-> <<v>>]
PosKeys(n) == [i \in 1..n |-> IF i = 1 THEN "0" ELSE IF i = 2 THEN "1" ELSE "2"]
ListOf(vs) == [kind |-> "list", keys |-> PosKeys(Len(vs)), vals |-> vs]
TupleOf(vs) == [kind |-> "tuple", keys |-> PosKeys(Len(vs)), vals |-> vs]
DictOf(ks, vs) == [kind |-> "dict", keys |-> ks, vals |-> vs]

\* The order of keys used when a dict is flattened (sorted keys).
KeyOrder ==
  <<"0", "1", "2", "a", "b", "b_ro", "b_rr", "counter", "h", "i", "w", "w_ir", "w_ro", "w_rr">>
Rank(k) == CHOOSE i \in 1..Len(KeyOrder) : KeyOrder[i] = k

\* t[k]: the entry of a container at a key (dict) or position (list, tuple).
Get(t, k) == t.vals[CHOOSE i \in 1..Len(t.keys) : t.keys[i] = k]

SortKeys(ks) ==
  [i \in 1..Len(ks) |->
     CHOOSE k \in Range(ks) :
       Cardinality({j \in Range(ks) : Rank(j) < Rank(k)}) = i - 1]

FlatKeysInsertion(t) == t.keys
FlatKeys(t) == IF t.kind = "dict" THEN SortKeys(t.keys) ELSE t.keys

\* tree_flatten: the leaves, and the structure needed to rebuild.
TreeLeaves(t) ==
  IF t.kind = "dict"
  THEN [i \in 1..Len(t.keys) |-> Get(t, FlatKeys(t)[i])]
  ELSE t.vals
TreeDef(t) == [kind |-> t.kind, keys |-> IF t.kind = "dict" THEN SortKeys(t.keys) ELSE t.keys]

\* tree_unflatten
TreeUnflatten(def, leaves) == [kind |-> def.kind, keys |-> def.keys, vals |-> leaves]

\* tree_map over the leaves, keeping the structure
TreeMap(F(_), t) == [t EXCEPT !.vals = [i \in DOMAIN t.vals |-> F(t.vals[i])]]

\* Python equality of containers: dicts are equal as mappings.
TreeEq(s, t) ==
  /\ s.kind = t.kind
  /\ Len(s.keys) = Len(t.keys)
  /\ Len(s.vals) = Len(t.vals)
  /\ IF s.kind = "dict"
     THEN /\ Range(s.keys) = Range(t.keys)
          /\ \A k \in Range(s.keys) : Get(s, k) = Get(t, k)
     ELSE s.vals = t.vals

\* ------------------------------------------------------------ array helpers
Zeros(n) == [i \in 1..n |-> 0]
Ones(n) == [i \in 1..n |-> 1]
Arange(n) == [i \in 1..n |-> i - 1]
\* vector + scalar, broadcast
VAddS(v, s) == [i \in DOMAIN v |-> v[i] + s]
\* tanh, on integers: odd, monotone, saturating at -1 and 1
Tanh(v) == IF v > 1 THEN 1 ELSE IF v < -1 THEN -1 ELSE v

VARIABLES
  prog,        \* which tutorial program is running
  has_return,  \* make_loop's has_return argument
  out_vars,    \* make_loop's out_vars argument: a pytree of variable names
  store,       \* the tracked variables: name -> value
  store0,      \* the tracked variables when the helper was called
  xs,          \* the argument of the loop function: a pytree of arrays
  pc,          \* "idle", "scan", "while", "cond", "done"
  carry,       \* the carried state of the external primitive (flattened dyn_vars)
  pos,         \* number of steps the primitive has run
  ys_out,      \* per step, the values of the leaves of out_vars
  ys_ret,      \* per step, the value body_fun returned
  calls,       \* the invocations of body_fun so far: [x, ret, store]
  result,      \* what the helper returned: [tuple, items]
  prev,        \* the earlier calls of the loop function: [xs, result, store0]
  kern,        \* the kernel registered as gpu_kernel: "add" or "copy"
  operands,    \* the positional operands of the custom-op call
  outs,        \* the outs argument: declared [shape, dtype] of each output
  grid,        \* grid=(grid,)
  block,       \* block=(block,)
  opc,         \* "idle", "running", "returned"
  args,        \* the kernel's arguments, by position: [tag, dtype, data]
  thr,         \* per thread <<blockIdx, threadIdx>>: [st, i]
  acc,         \* the memory accesses made: [tid, arg, idx, op]
  nw,          \* per element of the output buffer, the number of writes
  opresult     \* what the custom-op call returned

loopvars == <<prog, has_return, out_vars, store, store0, xs, pc, carry, pos,
              ys_out, ys_ret, calls, result, prev>>
opvars == <<kern, operands, outs, grid, block, opc, args, thr, acc, nw, opresult>>
vars == <<loopvars, opvars>>

\* -------------------------------------------------- the tutorial's programs
LoopProgs == {"sum_list", "sum_dict", "rnn"}
Progs == LoopProgs \cup {"while", "cond"}

\* dyn_vars of each program: dyn_vars=[a]; dyn_vars=self.vars();
\* dyn_vars=[i, counter]; dyn_vars=[a, b]
RnnDynVars ==
  DictOf(<<"h", "w_ir", "w_rr", "b_rr", "w_ro", "b_ro">>,
         <<"h", "w_ir", "w_rr", "b_rr", "w_ro", "b_ro">>)
DynVars(p) ==
  IF p = "rnn" THEN RnnDynVars
  ELSE IF p = "while" THEN ListOf(<<"i", "counter">>)
  ELSE IF p = "cond" THEN ListOf(<<"a", "b">>)
  ELSE ListOf(<<"a">>)

\* dyn_vars flattened: the variables whose values are the carried state
RnnDynLeaves == TreeLeaves(RnnDynVars)
DynLeaves(p) == IF p = "rnn" THEN RnnDynLeaves ELSE DynVars(p).vals

\* def body(x): x1, x2 = x; a.value += (x1 + x2)
BodyListDropX2(st, x) ==
  [store |-> [st EXCEPT !["a"] = VAddS(st["a"], x.vals[1])], ret |-> NoneTree]
BodyList(st, x) ==
  [store |-> [st EXCEPT !["a"] = VAddS(st["a"], x.vals[1] + x.vals[2])],
   ret |-> NoneTree]

\* def body(x): a.value += x['a'] + x['b']
BodyDictTwiceA(st, x) ==
  [store |-> [st EXCEPT !["a"] = VAddS(st["a"], Get(x, "a") + Get(x, "a"))],
   ret |-> NoneTree]
BodyDict(st, x) ==
  [store |-> [st EXCEPT !["a"] = VAddS(st["a"], Get(x, "a") + Get(x, "b"))],
   ret |-> NoneTree]

\* RNN.cell: self.h[:] = tanh(h @ w_rr + x @ w_ir + b_rr); o = h @ w_ro + b_ro
Cell(st, x) ==
  LET h1 == [b \in 1..NBatch |->
               Tanh(st["h"][b] * st["w_rr"][1] + x.vals[1] * st["w_ir"][1]
                    + st["b_rr"][1])]
      o == [b \in 1..NBatch |-> h1[b] * st["w_ro"][1] + st["b_ro"][1]]
  IN [store |-> [st EXCEPT !["h"] = h1], ret |-> Leaf(o)]

Body(p, st, x) ==
  IF p = "sum_list" THEN BodyList(st, x)
  ELSE IF p = "sum_dict" THEN BodyDict(st, x)
  ELSE Cell(st, x)

\* The structure of what body_fun returns (known from tracing, also for no steps).
RetDef(p) == IF p = "rnn" THEN TreeDef(Leaf(<<>>)) ELSE TreeDef(NoneTree)

\* ------------------------------------------------ the external scan primitive
\* The length of the leading axis of the leaves of xs.
NumTime(t) == Len(TreeLeaves(t)[1])
\* The k-th slice of xs: the k-th element of every leaf, in the structure of xs.
SliceAt(t, k) ==
  TreeUnflatten(TreeDef(t), [j \in DOMAIN TreeLeaves(t) |-> TreeLeaves(t)[j][k]])

\* Stack the per-step leaves: leaf j of the history is the sequence over the steps.
Stack(def, ys, n) ==
  TreeUnflatten(def, [j \in 1..n |-> [k \in DOMAIN ys |-> ys[k][j]]])

\* ------------------------------------------------------------------ make_loop
ReadVars(st, names) == [j \in DOMAIN names |-> st[names[j]]]
AssignVars(st, names, values) ==
  [v \in DOMAIN st |->
     IF \E j \in DOMAIN names : names[j] = v
     THEN values[CHOOSE j \in DOMAIN names : names[j] = v]
     ELSE st[v]]

\* Write the final carried state into the tracked variables.
WriteBackSkipped(st, names, values) == st
WriteBack(st, names, values) == AssignVars(st, names, values)

\* The function handed to scan: put the carried values into the variables, run
\* body_fun, read the variables back.
Fun2Scan(p, ovs, st, c, x) ==
  LET dyn == DynLeaves(p)
      r == Body(p, AssignVars(st, dyn, c), x)
  IN [carry |-> ReadVars(r.store, dyn),
      out |-> ReadVars(r.store, TreeLeaves(ovs)),
      ret |-> r.ret,
      store |-> r.store]

NumLeaves(def) == IF def.kind = "leaf" THEN 1 ELSE Len(def.keys)
HistOutOf(ovs, yo) == Stack(TreeDef(ovs), yo, Len(TreeLeaves(ovs)))
HistRetOf(p, yr) ==
  Stack(RetDef(p), [k \in DOMAIN yr |-> TreeLeaves(yr[k])], NumLeaves(RetDef(p)))

\* has_return=True: (hist_of_out_vars, hist_of_fun_returns); else hist_of_out_vars
LoopResultNoReturnHist(hr, ho, hret) == [tuple |-> FALSE, items |-> <<ho>>]
LoopResultDropsEmptyOut(hr, ho, hret) ==
  IF ho.kind = "none" THEN [tuple |-> FALSE, items |-> <<hret>>]
  ELSE IF hr THEN [tuple |-> TRUE, items |-> <<ho, hret>>]
  ELSE [tuple |-> FALSE, items |-> <<ho>>]
LoopResult(hr, ho, hret) ==
  IF hr THEN [tuple |-> TRUE, items |-> <<ho, hret>>]
  ELSE [tuple |-> FALSE, items |-> <<ho>>]

NoResult == [tuple |-> FALSE, items |-> <<>>]

\* loop_fun(xs): start the scan with the values of dyn_vars as the carried state.
LoopCall ==
  /\ pc = "idle"
  /\ prog \in LoopProgs
  /\ pc' = "scan"
  /\ store0' = store
  /\ carry' = ReadVars(store, DynLeaves(prog))
  /\ pos' = 0
  /\ ys_out' = <<>>
  /\ ys_ret' = <<>>
  /\ calls' = <<>>
  /\ UNCHANGED <<prog, has_return, out_vars, store, xs, result>>
  /\ UNCHANGED <<prev, opvars>>

\* One step of the scan.
ScanStep ==
  /\ pc = "scan"
  /\ pos < NumTime(xs)
  /\ LET x == SliceAt(xs, pos + 1)
         r == Fun2Scan(prog, out_vars, store, carry, x)
     IN /\ carry' = r.carry
        /\ ys_out' = Append(ys_out, r.out)
        /\ ys_ret' = Append(ys_ret, r.ret)
        /\ calls' = Append(calls, [x |-> x, ret |-> r.ret, store |-> r.store])
  /\ pos' = pos + 1
  /\ UNCHANGED <<prog, has_return, out_vars, store, store0, xs, pc, result>>
  /\ UNCHANGED <<prev, opvars>>

\* The scan is over: write the carried state back and return the histories.
LoopReturn ==
  /\ pc = "scan"
  /\ pos = NumTime(xs)
  /\ store' = WriteBack(store, DynLeaves(prog), carry)
  /\ result' = LoopResult(has_return, HistOutOf(out_vars, ys_out), HistRetOf(prog, ys_ret))
  /\ pc' = "done"
  /\ UNCHANGED <<prog, has_return, out_vars, store0, xs, carry, pos, ys_out,
                 ys_ret, calls>>
  /\ UNCHANGED <<prev, opvars>>

\* loop_fun(xs2), called again after it returned: the scan starts from the values
\* the tracked variables hold now.
LoopCallAgain(xs2) ==
  /\ pc = "done"
  /\ prog \in LoopProgs
  /\ Len(prev) + 1 < MaxCalls
  /\ prev' = Append(prev, [xs |-> xs, result |-> result, store0 |-> store0])
  /\ xs' = xs2
  /\ pc' = "scan"
  /\ store0' = store
  /\ carry' = ReadVars(store, DynLeaves(prog))
  /\ pos' = 0
  /\ ys_out' = <<>>
  /\ ys_ret' = <<>>
  /\ calls' = <<>>
  /\ UNCHANGED <<prog, has_return, out_vars, store, result>>
  /\ UNCHANGED opvars

\* ----------------------------------------------------------------- make_while
\* def cond_f(): return i[0] < 10
CondF(st) == st["i"][1] < WhileLimit
\* def body_f(): i.value += 1.; counter.value += i
BodyF(st) ==
  LET i1 == VAddS(st["i"], 1)
  IN [st EXCEPT !["i"] = i1,
                !["counter"] = [j \in DOMAIN st["counter"] |-> st["counter"][j] + i1[j]]]

\* cond_fun and body_fun as the external while primitive sees them: on the carry
WhileCondOnCarry(st, c) == CondF(AssignVars(st, DynLeaves("while"), c))
WhileBodyOnCarry(st, c) ==
  ReadVars(BodyF(AssignVars(st, DynLeaves("while"), c)),
           DynLeaves("while"))

\* loop(): start the while primitive with the values of dyn_vars as the carry.
WhileCall ==
  /\ pc = "idle"
  /\ prog = "while"
  /\ pc' = "while"
  /\ store0' = store
  /\ carry' = ReadVars(store, DynLeaves(prog))
  /\ pos' = 0
  /\ UNCHANGED <<prog, has_return, out_vars, store, xs, ys_out, ys_ret, calls, result>>
  /\ UNCHANGED <<prev, opvars>>

\* One iteration of the while primitive.
WhileStep ==
  /\ pc = "while"
  /\ WhileCondOnCarry(store, carry)
  /\ carry' = WhileBodyOnCarry(store, carry)
  /\ pos' = pos + 1
  /\ UNCHANGED <<prog, has_return, out_vars, store, store0, xs, pc, ys_out, ys_ret,
                 calls, result>>
  /\ UNCHANGED <<prev, opvars>>

\* The condition is false: write the carried state back; loop() returns nothing.
WhileReturn ==
  /\ pc = "while"
  /\ ~WhileCondOnCarry(store, carry)
  /\ store' = WriteBack(store, DynLeaves(prog), carry)
  /\ result' = NoResult
  /\ pc' = "done"
  /\ UNCHANGED <<prog, has_return, out_vars, store0, xs, carry, pos, ys_out, ys_ret,
                 calls>>
  /\ UNCHANGED <<prev, opvars>>

\* ------------------------------------------------------------------ make_cond
\* def true_f(): a.value += 1
TrueF(st) == [st EXCEPT !["a"] = VAddS(st["a"], 1)]
\* def false_f(): b.value -= 1
FalseF(st) == [st EXCEPT !["b"] = VAddS(st["b"], -1)]

\* The external conditional primitive on the carry.
CondPrim(pred, st, c) ==
  LET dyn == DynLeaves("cond")
      s1 == AssignVars(st, dyn, c)
  IN ReadVars(IF pred THEN TrueF(s1) ELSE FalseF(s1), dyn)

\* cond(pred): run the conditional primitive on the values of dyn_vars and write
\* the result back.
CondCall(pred) ==
  /\ pc \in {"idle", "done"}
  /\ prog = "cond"
  /\ Len(calls) < MaxCondCalls
  /\ store0' = store
  /\ carry' = CondPrim(pred, store, ReadVars(store, DynLeaves(prog)))
  /\ store' = WriteBack(store, DynLeaves(prog), carry')
  /\ calls' = Append(calls, pred)
  /\ result' = NoResult
  /\ pc' = "done"
  /\ UNCHANGED <<prog, has_return, out_vars, xs, pos, ys_out, ys_ret>>
  /\ UNCHANGED <<prev, opvars>>

\* ------------------------------------------------------ custom-operator call
Threads == {<<b, t>> : b \in 0..(grid - 1), t \in 0..(block - 1)}

\* The parameter lists of the kernels:
\*   kernel(const float* x1, const float* x2, unsigned int N, float* y)
\*   elementwise_copy(x, size, y)
Params(k) == IF k = "add" THEN <<"x1", "x2", "N", "y">> ELSE <<"x", "size", "y">>
ParamIndex(k, name) == CHOOSE j \in 1..Len(Params(k)) : Params(k)[j] = name
Arg(name) == args[ParamIndex(kern, name)]

\* The kernel is called with the operands, then the output buffers: outputs are
\* kept at the end of the parameter list.
KernelArgsOutputsFirst(ops, bufs) == bufs \o ops
KernelArgs(ops, bufs) == ops \o bufs

\* One uninitialized buffer per entry of outs, of the declared shape and dtype.
AllocOuts(ops, decl) ==
  [j \in DOMAIN decl |->
     [tag |-> "out", dtype |-> decl[j].dtype,
      data |-> [k \in 1..decl[j].shape |-> Uninit]]]

\* A load from a buffer; outside the buffer the value is not defined.
Load(buf, idx) == IF idx + 1 \in DOMAIN buf.data THEN buf.data[idx + 1] ELSE Uninit
\* A store to a buffer.
StoreAt(a, j, idx, v) ==
  IF idx + 1 \in DOMAIN a[j].data
  THEN [a EXCEPT ![j].data[idx + 1] = v]
  ELSE a
CountWrite(n, idx) == IF idx + 1 \in DOMAIN n THEN [n EXCEPT ![idx + 1] = @ + 1] ELSE n

\* prim(*operands, grid=(grid,), block=(block,), outs=[...]): launch the kernel.
OpCall ==
  /\ opc = "idle"
  /\ args' = KernelArgs(operands, AllocOuts(operands, outs))
  /\ thr' = [th \in Threads |-> [st |-> "ready", i |-> 0]]
  /\ nw' = [k \in 1..outs[1].shape |-> 0]
  /\ opc' = "running"
  /\ UNCHANGED <<kern, operands, outs, grid, block, acc, opresult>>
  /\ UNCHANGED loopvars

\* __global__ void kernel(x1, x2, N, y):
\*   unsigned int tid = blockDim.x * blockIdx.x + threadIdx.x;
\*   if (tid < N) { y[tid] = x1[tid] + x2[tid]; }
\* (unsigned 32-bit arithmetic: blockDim * blockIdx + threadIdx stays far below
\* 2^32 for the launches modelled, so it never wraps)
AddGuardInclusive(tid, n) == tid <= n
AddGuard(tid, n) == tid < n

\* tid = blockDim.x * blockIdx.x + threadIdx.x, for the thread <<blockIdx, threadIdx>>
TidThreadOnly(bdim, th) == th[2]
Tid(bdim, th) == bdim * th[1] + th[2]

\* One thread runs the kernel body. The statement is taken as one step: x1 and
\* x2 are only read, and every write of y is counted in nw and logged in acc,
\* so two threads storing to one element show as a count of 2.
AddThread(th) ==
  /\ opc = "running"
  /\ kern = "add"
  /\ thr[th].st = "ready"
  /\ LET tid == Tid(block, th)
         n == Arg("N").data[1]
         y == ParamIndex(kern, "y")
     IN IF AddGuard(tid, n)
        THEN /\ args' = StoreAt(args, y, tid, Load(Arg("x1"), tid) + Load(Arg("x2"), tid))
             /\ nw' = CountWrite(nw, tid)
             /\ acc' = acc \cup {[tid |-> tid, arg |-> "x1", idx |-> tid, op |-> "r"],
                                 [tid |-> tid, arg |-> "x2", idx |-> tid, op |-> "r"],
                                 [tid |-> tid, arg |-> "y", idx |-> tid, op |-> "w"]}
        ELSE UNCHANGED <<args, nw, acc>>
  /\ thr' = [thr EXCEPT ![th].st = "done"]
  /\ UNCHANGED <<kern, operands, outs, grid, block, opc, opresult>>
  /\ UNCHANGED loopvars

\* @jit.rawkernel()
\* def elementwise_copy(x, size, y):
\*   tid = jit.blockIdx.x * jit.blockDim.x + jit.threadIdx.x
\*   ntid = jit.gridDim.x * jit.blockDim.x
\*   for i in range(tid, size, ntid):
\*     y[i] = x[i]
CopyStrideBlock(g, b) == b
CopyStride(g, b) == g * b

\* One iteration of the grid-stride loop of one thread (or its exit).
CopyThread(th) ==
  /\ opc = "running"
  /\ kern = "copy"
  /\ thr[th].st # "done"
  /\ LET tid == th[1] * block + th[2]
         ntid == CopyStride(grid, block)
         size == Arg("size").data[1]
         i == IF thr[th].st = "ready" THEN tid ELSE thr[th].i
         y == ParamIndex(kern, "y")
     IN IF i < size
        THEN /\ args' = StoreAt(args, y, i, Load(Arg("x"), i))
             /\ nw' = CountWrite(nw, i)
             /\ acc' = acc \cup {[tid |-> tid, arg |-> "x", idx |-> i, op |-> "r"],
                                 [tid |-> tid, arg |-> "y", idx |-> i, op |-> "w"]}
             /\ thr' = [thr EXCEPT ![th] = [st |-> "loop", i |-> i + ntid]]
        ELSE /\ thr' = [thr EXCEPT ![th] = [st |-> "done", i |-> i]]
             /\ UNCHANGED <<args, nw, acc>>
  /\ UNCHANGED <<kern, operands, outs, grid, block, opc, opresult>>
  /\ UNCHANGED loopvars

\* Every thread has finished: the call returns the output buffers, in order.
OpReturn ==
  /\ opc = "running"
  /\ \A th \in Threads : thr[th].st = "done"
  /\ opresult' = [j \in DOMAIN outs |-> args[Len(operands) + j]]
  /\ opc' = "returned"
  /\ UNCHANGED <<kern, operands, outs, grid, block, args, thr, acc, nw>>
  /\ UNCHANGED loopvars


\* ---------------------------------------------------------------- the inputs
ArraysOfLen(n) == [1..n -> Vals]
PairsOfLen(n) == {<<l1, l2>> : l1 \in ArraysOfLen(n), l2 \in ArraysOfLen(n)}
Pairs ==
  UNION {PairsOfLen(n) : n \in 0..MaxLen}
    \cup {<<Arange(n), Ones(n)>> : n \in 0..NArange}

XsOf(p) ==
  IF p = "sum_list"
  THEN {ListOf(q) : q \in Pairs} \cup {TupleOf(q) : q \in Pairs}
  ELSE IF p = "sum_dict"
  THEN {DictOf(<<"a", "b">>, q) : q \in Pairs}
         \cup {DictOf(<<"b", "a">>, <<q[2], q[1]>>) : q \in Pairs}
  ELSE IF p = "rnn"
  THEN {Leaf(l) : l \in UNION {ArraysOfLen(n) : n \in 0..MaxLen}}
  ELSE {NoneTree}

OutVarsOf(p) ==
  IF p = "rnn"
  THEN {NoneTree, Leaf("h"), ListOf(<<"h", "w_rr">>), TupleOf(<<"w_rr", "h">>),
        DictOf(<<"w", "h">>, <<"w_rr", "h">>), DictOf(<<"h", "w">>, <<"h", "w_rr">>)}
  ELSE IF p \in {"sum_list", "sum_dict"}
  THEN {NoneTree, Leaf("a")}
  ELSE {NoneTree}

\* self.h = bm.Variable(bm.random.random((n_batch, n_h))): some values in [0, 1]
HInits == {Zeros(NBatch), Ones(NBatch), [b \in 1..NBatch |-> b % 2]}

StoresOf(p) ==
  IF p = "rnn"
  THEN {[h |-> h0, w_ir |-> <<w1>>, w_rr |-> <<w2>>, b_rr |-> <<0>>,
         w_ro |-> <<w3>>, b_ro |-> <<0>>] :
          h0 \in HInits, w1 \in WeightVals, w2 \in WeightVals, w3 \in WeightVals}
  ELSE IF p = "while"
  THEN {[i |-> <<i0>>, counter |-> <<c0>>] : i0 \in 0..(WhileLimit + 1), c0 \in Vals}
  ELSE IF p = "cond"
  THEN {[a |-> Zeros(CondLen), b |-> Ones(CondLen)]}
  ELSE {[a |-> Zeros(ALen)]}

OpIdle ==
  /\ kern = "none"
  /\ operands = <<>>
  /\ outs = <<>>
  /\ grid = 1
  /\ block = 1
  /\ opc = "off"
  /\ args = <<>>
  /\ thr = <<>>
  /\ acc = {}
  /\ nw = <<>>
  /\ opresult = <<>>

Init ==
  /\ prog \in Progs
  /\ has_return \in (IF prog \in LoopProgs THEN BOOLEAN ELSE {FALSE})
  /\ out_vars \in OutVarsOf(prog)
  /\ store \in StoresOf(prog)
  /\ store0 = store
  /\ xs \in XsOf(prog)
  /\ pc = "idle"
  /\ carry = <<>>
  /\ pos = 0
  /\ ys_out = <<>>
  /\ ys_ret = <<>>
  /\ calls = <<>>
  /\ result = NoResult
  /\ prev = <<>>
  /\ OpIdle

Next ==
  \/ LoopCall
  \/ ScanStep
  \/ LoopReturn
  \/ WhileCall
  \/ WhileStep
  \/ WhileReturn
  \/ \E pred \in BOOLEAN : CondCall(pred)

Spec == Init /\ [][Next]_vars

\* Repeated calls of one loop function: the inputs of each call.
StepArrays == UNION {{Ones(n), Arange(n)} : n \in 0..MaxLen}
XsAgain(p) ==
  IF p = "sum_list"
  THEN {ListOf(<<l, Ones(Len(l))>>) : l \in StepArrays}
  ELSE IF p = "sum_dict"
  THEN {DictOf(<<"a", "b">>, <<l, Ones(Len(l))>>) : l \in StepArrays}
  ELSE {Leaf(l) : l \in StepArrays}

StoresAgain(p) ==
  IF p = "rnn"
  THEN {[h |-> h0, w_ir |-> <<w>>, w_rr |-> <<w>>, b_rr |-> <<0>>,
         w_ro |-> <<w>>, b_ro |-> <<0>>] : h0 \in HInits, w \in WeightVals}
  ELSE {[a |-> Zeros(ALen)]}

InitAgain ==
  /\ prog \in LoopProgs
  /\ has_return \in BOOLEAN
  /\ out_vars \in OutVarsOf(prog)
  /\ store \in StoresAgain(prog)
  /\ store0 = store
  /\ xs \in XsAgain(prog)
  /\ pc = "idle"
  /\ carry = <<>>
  /\ pos = 0
  /\ ys_out = <<>>
  /\ ys_ret = <<>>
  /\ calls = <<>>
  /\ result = NoResult
  /\ prev = <<>>
  /\ OpIdle

NextAgain ==
  \/ LoopCall
  \/ ScanStep
  \/ LoopReturn
  \/ \E xs2 \in XsAgain(prog) : LoopCallAgain(xs2)

SpecAgain == InitAgain /\ [][NextAgain]_vars

\* The arrays handed to the kernels: bm.ones(...), and one with distinct elements.
OpArrays(n) == {Ones(n), Arange(n)}
InArray(d) == [tag |-> "in", dtype |-> "float32", data |-> d]
Scalar(n) == [tag |-> "scalar", dtype |-> "uint32", data |-> <<n>>]

\* prim1(x1, x2, N**2, ...); prim2(x, size, ...)
OperandsOf(k, n) ==
  IF k = "add"
  THEN {<<InArray(d1), InArray(d2), Scalar(n)>> : d1 \in OpArrays(n), d2 \in OpArrays(n)}
  ELSE {<<InArray(d), Scalar(n)>> : d \in OpArrays(n)}

LoopIdle ==
  /\ prog = "none"
  /\ has_return = FALSE
  /\ out_vars = NoneTree
  /\ store = <<>>
  /\ store0 = <<>>
  /\ xs = NoneTree
  /\ pc = "off"
  /\ carry = <<>>
  /\ pos = 0
  /\ ys_out = <<>>
  /\ ys_ret = <<>>
  /\ calls = <<>>
  /\ result = NoResult
  /\ prev = <<>>

InitOp ==
  /\ LoopIdle
  /\ kern \in {"add", "copy"}
  /\ grid \in 1..MaxGrid
  /\ block \in 1..MaxBlock
  /\ \E n \in 0..MaxSize :
       /\ operands \in OperandsOf(kern, n)
       /\ outs = <<[shape |-> n, dtype |-> "float32"]>>
  /\ opc = "idle"
  /\ args = <<>>
  /\ thr = <<>>
  /\ acc = {}
  /\ nw = <<>>
  /\ opresult = <<>>

NextOp ==
  \/ OpCall
  \/ \E th \in Threads : AddThread(th)
  \/ \E th \in Threads : CopyThread(th)
  \/ OpReturn

SpecOp == InitOp /\ [][NextOp]_vars

\* ---------------------------------------------- the documented reference loop
\* for x in xs: the per-step inputs, in the container structure of xs
RefSteps(t) == [k \in 1..NumTime(t) |-> TreeMap(LAMBDA leaf : leaf[k], t)]
\* the values of out_vars, in the container structure of out_vars
ReadTree(t, st) == TreeMap(LAMBDA name : st[name], t)

\* def for_loop_function(body_fun, dyn_vars, out_vars, xs):
\*   ys = []
\*   for x in xs:
\*     results = body_fun(x)
\*     ys.append([out_vars, results])
\*   return ys
RECURSIVE RefLoopAppendFirst(_, _, _, _, _)
RefLoopAppendFirst(p, ovs, st, steps, ys) ==
  IF Len(steps) = 0 THEN [store |-> st, ys |-> ys]
  ELSE LET r == Body(p, st, Head(steps))
       IN RefLoopAppendFirst(p, ovs, r.store, Tail(steps),
                             Append(ys, [out |-> ReadTree(ovs, st), ret |-> r.ret]))
RECURSIVE RefLoop(_, _, _, _, _)
RefLoop(p, ovs, st, steps, ys) ==
  IF Len(steps) = 0 THEN [store |-> st, ys |-> ys]
  ELSE LET r == Body(p, st, Head(steps))
       IN RefLoop(p, ovs, r.store, Tail(steps),
                  Append(ys, [out |-> ReadTree(ovs, r.store), ret |-> r.ret]))

\* The k-th entry of a history: the k-th element of every leaf.
EntryAt(h, k) == TreeMap(LAMBDA leaf : leaf[k], h)

\* The table printed by the tutorial for xs=[arange(10), ones(10)].
ExpectedTable == <<1, 3, 6, 10, 15, 21, 28, 36, 45, 55>>

\* ------------------------------------------------- the loop as a pure function
RECURSIVE ScanPrim(_, _, _, _, _, _, _)
ScanPrim(p, ovs, st, c, t, k, hist) ==
  IF k > NumTime(t) THEN [carry |-> c, ys_out |-> hist.out, ys_ret |-> hist.ret]
  ELSE LET r == Fun2Scan(p, ovs, st, c, SliceAt(t, k))
       IN ScanPrim(p, ovs, st, r.carry, t, k + 1,
                   [out |-> Append(hist.out, r.out), ret |-> Append(hist.ret, r.ret)])

LoopFun(p, ovs, hr, st, t) ==
  LET dyn == DynLeaves(p)
      sc == ScanPrim(p, ovs, st, ReadVars(st, dyn), t, 1, [out |-> <<>>, ret |-> <<>>])
  IN [store |-> AssignVars(st, dyn, sc.carry),
      result |-> LoopResult(hr, HistOutOf(ovs, sc.ys_out), HistRetOf(p, sc.ys_ret))]

\* ======================================================================
\* Properties
\* ======================================================================
LoopDone == pc = "done" /\ prog \in LoopProgs

\* C1: the loop function behaves like the reference loop: body_fun is invoked
\* once per step of xs, in order, and the history has one entry per step, each
\* of the shape of the out variable, equal to the reference loop's entry.
C1_LoopMatchesReference ==
  LoopDone =>
    LET n == NumTime(xs)
        ref == RefLoop(prog, out_vars, store0, RefSteps(xs), <<>>)
        ho == result.items[1]
        names == TreeLeaves(out_vars)
    IN /\ Len(calls) = n
       /\ \A k \in 1..n : TreeEq(calls[k].x, RefSteps(xs)[k])
       /\ Len(ref.ys) = n
       /\ \A j \in DOMAIN ho.vals : Len(ho.vals[j]) = n
       /\ \A j \in DOMAIN ho.vals : \A k \in 1..n :
            Len(ho.vals[j][k]) = Len(store0[names[j]])
       /\ \A k \in 1..n : TreeEq(EntryAt(ho, k), ref.ys[k].out)
       /\ has_return =>
            \A k \in 1..n : TreeEq(EntryAt(result.items[2], k), ref.ys[k].ret)
       /\ store = ref.store

C1_Witness ==
  /\ LoopDone
  /\ prog = "rnn"
  /\ has_return
  /\ out_vars.kind = "leaf"
  /\ Len(calls) = MaxLen
  /\ calls[1].x # calls[2].x
  /\ result.items[1].vals[1][1] # result.items[1].vals[1][2]

\* C2: entry k of the history is the value of the out variable after the k-th
\* invocation: with a = 0, body a += x1 + x2 and xs = [x1, x2], entry k is the
\* prefix sum of x1[j] + x2[j] for j up to k; for xs = [arange(10), ones(10)]
\* the entries are 1, 3, 6, 10, ..., 55.
RECURSIVE PrefixSum(_, _, _)
PrefixSum(l1, l2, k) == IF k = 0 THEN 0 ELSE PrefixSum(l1, l2, k - 1) + l1[k] + l2[k]

C2_HistoryIsPrefixSums ==
  (LoopDone /\ prog = "sum_list" /\ out_vars = Leaf("a")) =>
    LET h == result.items[1].vals[1]
        l1 == xs.vals[1]
        l2 == xs.vals[2]
    IN /\ Len(h) = Len(l1)
       /\ \A k \in 1..Len(h) : h[k] = [i \in 1..ALen |-> PrefixSum(l1, l2, k)]
       /\ (l1 = Arange(NArange) /\ l2 = Ones(NArange)) =>
            \A k \in 1..NArange : h[k] = [i \in 1..ALen |-> ExpectedTable[k]]

C2_Witness ==
  /\ LoopDone
  /\ prog = "sum_list"
  /\ out_vars = Leaf("a")
  /\ xs = ListOf(<<Arange(NArange), Ones(NArange)>>)
  /\ result.items[1].vals[1][NArange] = [i \in 1..ALen |-> 55]

C6_ContainerIndependent ==
  (LoopDone /\ prog \in {"sum_list", "sum_dict"}) =>
    LET n == NumTime(xs)
        mine == [store |-> store, result |-> result]
        x1 == IF prog = "sum_list" THEN xs.vals[1] ELSE Get(xs, "a")
        x2 == IF prog = "sum_list" THEN xs.vals[2] ELSE Get(xs, "b")
    IN /\ \A k \in 1..n :
            IF prog = "sum_list"
            THEN calls[k].x.vals = <<x1[k], x2[k]>>
            ELSE Get(calls[k].x, "a") = x1[k] /\ Get(calls[k].x, "b") = x2[k]
       /\ LoopFun("sum_list", out_vars, has_return, store0, ListOf(<<x1, x2>>)) = mine
       /\ LoopFun("sum_list", out_vars, has_return, store0, TupleOf(<<x1, x2>>)) = mine
       /\ LoopFun("sum_dict", out_vars, has_return, store0,
                  DictOf(<<"a", "b">>, <<x1, x2>>)) = mine
       /\ LoopFun("sum_dict", out_vars, has_return, store0,
                  DictOf(<<"b", "a">>, <<x2, x1>>)) = mine

C6_Witness ==
  /\ LoopDone
  /\ prog = "sum_dict"
  /\ xs.keys = <<"b", "a">>
  /\ out_vars = Leaf("a")
  /\ Len(calls) = MaxLen
  /\ Get(xs, "a") # Get(xs, "b")
  /\ store["a"] # store0["a"]

\* -------------------------------------------- the primitives as pure functions
RECURSIVE WhilePrim(_, _)
WhilePrim(st, c) ==
  IF WhileCondOnCarry(st, c) THEN WhilePrim(st, WhileBodyOnCarry(st, c)) ELSE c

\* while cond_fun(): body_fun()
RECURSIVE RefWhile(_)
RefWhile(st) == IF CondF(st) THEN RefWhile(BodyF(st)) ELSE st

\* if pred: true_fun() else: false_fun()
RefCond(pred, st) == IF pred THEN TrueF(st) ELSE FalseF(st)

\* C7: each helper is a pass-through to the external primitive: the returned
\* value and the final dyn_vars are those of the primitive (scan, while,
\* conditional) run on the flattened dyn_vars as carried state, and nothing else
\* is changed; they agree with the Python statements and the printed results of
\* the tutorial.
C7_PassThrough ==
  pc = "done" =>
    LET dyn == DynLeaves(prog)
        init == ReadVars(store0, dyn)
    IN /\ \A v \in DOMAIN store : v \notin Range(dyn) => store[v] = store0[v]
       /\ DOMAIN store = DOMAIN store0
       /\ IF prog \in LoopProgs
          THEN LET sc == ScanPrim(prog, out_vars, store0, init, xs, 1,
                                  [out |-> <<>>, ret |-> <<>>])
               IN /\ ReadVars(store, dyn) = sc.carry
                  /\ result = LoopResult(has_return, HistOutOf(out_vars, sc.ys_out),
                                         HistRetOf(prog, sc.ys_ret))
          ELSE IF prog = "while"
          THEN /\ ReadVars(store, dyn) = WhilePrim(store0, init)
               /\ store = RefWhile(store0)
               /\ result = NoResult
               /\ (store0["i"] = <<0>> /\ store0["counter"] = <<0>>) =>
                    (store["i"] = <<10>> /\ store["counter"] = <<55>>)
          ELSE /\ ReadVars(store, dyn) = CondPrim(calls[Len(calls)], store0, init)
               /\ store = RefCond(calls[Len(calls)], store0)
               /\ result = NoResult
               /\ calls = <<TRUE, TRUE, FALSE, FALSE>> =>
                    (store["a"] = <<2, 2>> /\ store["b"] = <<-1, -1>>)

C7_Witness ==
  /\ pc = "done"
  /\ prog = "while"
  /\ store0["i"] = <<0>>
  /\ store0["counter"] = <<0>>
  /\ pos = WhileLimit
  /\ store["counter"] = <<55>>

OpLive == opc \in {"running", "returned"}

C10_GridStrideCopy ==
  (opc = "returned" /\ kern = "copy") =>
    LET size == operands[2].data[1]
        x == operands[1].data
        y == opresult[1].data
    IN /\ \A i \in 0..(size - 1) :
            /\ y[i + 1] = x[i + 1]
            /\ nw[i + 1] = 1
            /\ {a.tid : a \in {b \in acc : b.op = "w" /\ b.idx = i}} = {i % (grid * block)}
       /\ \A a \in acc : a.idx >= 0 /\ a.idx < size

C10_Witness ==
  /\ opc = "returned"
  /\ kern = "copy"
  /\ grid = MaxGrid
  /\ block = MaxBlock
  /\ operands[2].data[1] = MaxSize
  /\ operands[1].data = Arange(MaxSize)
  /\ opresult[1].data = Arange(MaxSize)

\* C11: the kernel launched as in the tutorial, with element count N*N,
\* grid (N,) and block (N,) on two inputs of N*N elements, computes the
\* element-wise sum: once every thread has finished, in any interleaving,
\* y[t] = x1[t] + x2[t] for every flat index t < N*N, and every element of y was
\* written exactly once, by the thread with tid = t.
C11_AddTile ==
  (opc = "returned" /\ kern = "add" /\ grid = block
     /\ operands[3].data[1] = grid * grid) =>
    LET nn == grid * grid
        x1 == operands[1].data
        x2 == operands[2].data
        y == opresult[1].data
    IN /\ Len(x1) = nn /\ Len(x2) = nn /\ Len(y) = nn
       /\ Cardinality({Tid(block, th) : th \in Threads}) = nn
       /\ \A t \in 0..(nn - 1) :
            /\ y[t + 1] = x1[t + 1] + x2[t + 1]
            /\ nw[t + 1] = 1
            /\ {a.tid : a \in {b \in acc : b.op = "w" /\ b.idx = t}} = {t}

C11_Witness ==
  /\ opc = "returned"
  /\ kern = "add"
  /\ grid = 2
  /\ block = 2
  /\ operands[3].data[1] = grid * grid
  /\ operands[1].data = Arange(4)
  /\ operands[2].data = Ones(4)
  /\ opresult[1].data = <<1, 2, 3, 4>>

\* C12: the kernel never accesses memory out of range when N is the element
\* count of its buffers: a thread with tid >= N reads nothing of x1 or x2 and
\* writes nothing of y, every access of a thread is at index tid < N, and once
\* all threads have finished the written indices are exactly
\* 0 .. min(N, grid*block) - 1 (so exactly 0 .. N-1 when grid*block exceeds N).
C12_AddInRange ==
  (OpLive /\ kern = "add") =>
    LET n == operands[3].data[1]
        nthr == grid * block
        lim == IF n < nthr THEN n ELSE nthr
        written == {a.idx : a \in {b \in acc : b.op = "w"}}
    IN /\ \A a \in acc :
            /\ a.idx = a.tid
            /\ a.tid < n
            /\ a.idx >= 0
            /\ a.idx < Len(Arg(a.arg).data)
       /\ \A th \in Threads :
            (thr[th].st = "done" /\ Tid(block, th) >= n) =>
              ~\E a \in acc : a.tid = Tid(block, th)
       /\ opc = "returned" =>
            /\ written = 0..(lim - 1)
            /\ \A i \in 1..Len(nw) : nw[i] = (IF i - 1 \in written THEN 1 ELSE 0)
            /\ \A i \in 1..Len(opresult[1].data) :
                 (i - 1 \notin written) => opresult[1].data[i] = Uninit

C12_Witness ==
  /\ opc = "returned"
  /\ kern = "add"
  /\ operands[3].data[1] > 0
  /\ grid * block > operands[3].data[1] + 1
  /\ \A th \in Threads : thr[th].st = "done"
  /\ {a.idx : a \in {b \in acc : b.op = "w"}} = 0..(operands[3].data[1] - 1)

\* Histories (or inputs) of consecutive calls, joined along the time axis.
ConcatTree(t1, t2) ==
  [t1 EXCEPT !.vals = [i \in DOMAIN t1.vals |-> t1.vals[i] \o t2.vals[i]]]
RECURSIVE ConcatTrees(_)
ConcatTrees(ts) ==
  IF Len(ts) = 1 THEN ts[1] ELSE ConcatTree(ts[1], ConcatTrees(Tail(ts)))
ConcatResults(rs) ==
  [tuple |-> rs[1].tuple,
   items |-> [j \in DOMAIN rs[1].items |->
                ConcatTrees([k \in DOMAIN rs |-> rs[k].items[j]])]]

\* C13: the loop function writes the final loop state back into the tracked
\* variables: after a call on non-empty xs every out variable holds the last
\* entry of its history; a later call continues from that state, so the
\* histories of the consecutive calls, concatenated, are the history of one
\* call on the concatenated inputs (and of the reference loop over them), and
\* the variables end in the same values.
C13_WriteBackAndContinue ==
  LoopDone =>
    /\ NumTime(xs) > 0 =>
         TreeEq(EntryAt(result.items[1], NumTime(xs)), ReadTree(out_vars, store))
    /\ prev # <<>> =>
         LET first == prev[1].store0
             allxs == ConcatTrees([k \in DOMAIN prev |-> prev[k].xs] \o <<xs>>)
             joined == ConcatResults([k \in DOMAIN prev |-> prev[k].result] \o <<result>>)
             before == LoopFun(prog, out_vars, has_return, first,
                               ConcatTrees([k \in DOMAIN prev |-> prev[k].xs]))
             one == LoopFun(prog, out_vars, has_return, first, allxs)
             ref == RefLoop(prog, out_vars, first, RefSteps(allxs), <<>>)
             n == NumTime(allxs)
         IN /\ store0 = before.store
            /\ joined = one.result
            /\ store = one.store
            /\ n = NumTime(xs) + NumTime(ConcatTrees([k \in DOMAIN prev |-> prev[k].xs]))
            /\ Len(ref.ys) = n
            /\ \A k \in 1..n : TreeEq(EntryAt(joined.items[1], k), ref.ys[k].out)
            /\ has_return =>
                 \A k \in 1..n : TreeEq(EntryAt(joined.items[2], k), ref.ys[k].ret)
            /\ store = ref.store

C13_Witness ==
  /\ LoopDone
  /\ prog = "sum_list"
  /\ out_vars = Leaf("a")
  /\ Len(prev) = 1
  /\ NumTime(prev[1].xs) = MaxLen
  /\ NumTime(xs) = MaxLen
  /\ xs.vals[1] = Arange(MaxLen)
  /\ store0 # prev[1].store0
  /\ store # store0
  /\ result.items[1].vals[1][1] # prev[1].result.items[1].vals[1][1]
  /\ store["a"] = result.items[1].vals[1][MaxLen]

====
